---- MODULE Spec2Model ----
(***************************************************************************)
(* Model of the lofter crate: a stack of sketches (vertex rings), the      *)
(* LoftBuilder that carves sections out of ranked edge candidates, the     *)
(* merge sweep build_loft_edges, and the triangle extraction.              *)
(*                                                                         *)
(* Geometry.  Every angular computation of the crate goes through          *)
(* Vec2::angle_to on the xy projection of a position, so a position is     *)
(* modelled by its polar angle in whole degrees (0 .. 359) and angles are  *)
(* computed exactly.  The z offset of a sketch is an integer.  The random  *)
(* per-face colour of the vertex buffer is left out.                       *)
(***************************************************************************)
EXTENDS Integers, Sequences, FiniteSets, TLC

VARIABLES
    sketches,       \* Lofter::sketches
    loft_maps,      \* Lofter::loft_maps
    call,           \* the last call made on the Lofter and its arguments
    panicked,       \* TRUE once a call has panicked (the process is gone)
    calls,          \* number of calls made since the initial state
    tie_order,      \* how sort_unstable_by orders candidates of equal error
    b_sketches,     \* LoftBuilder::sketches of the loft_sketches run
    b_sections,     \* LoftBuilder::loft.sections during loft_sketches
    b_candidates,   \* candidates not yet visited by the loop of loft_sketches
    b_tol,          \* max_radial_error of the loft_sketches run, in degrees
    b_pc,           \* position of the loft_sketches run
    b_loft,         \* the Loft returned by LoftBuilder::build
    b_last,         \* what the last step of the loft_sketches run did
    b_calls         \* the vertex pairs try_split_section was called with so far

vars == <<sketches, loft_maps, call, panicked, calls, tie_order,
          b_sketches, b_sections, b_candidates, b_tol, b_pc, b_loft, b_last,
          b_calls>>

lofterVars == <<sketches, loft_maps, call, panicked, calls>>
builderVars ==
    <<b_sketches, b_sections, b_candidates, b_tol, b_pc, b_loft, b_last, b_calls>>

-----------------------------------------------------------------------------
(* Bounds *)

\* Largest number of sketches the Lofter is grown to.
MaxSketches == 3

\* Largest number of calls made on one Lofter after Lofter::default.
MaxCalls == 3

-----------------------------------------------------------------------------
(* Radial geometry (util.rs, glam) *)

\* Degrees in a full turn; LoftOptions::max_radial_edge_angle is in degrees.
FullTurn == 360

HalfTurn == FullTurn \div 2

\* Mutant of AngleTo: the difference is not folded into (-180, 180].
AngleToUnwrapped(a, b) == (b - a) % FullTurn

\* Vec2::angle_to: the signed angle from a to b, in (-180, 180].
AngleTo(a, b) ==
    LET d == (b - a) % FullTurn
    IN  IF d > HalfTurn THEN d - FullTurn ELSE d

Abs(x) == IF x < 0 THEN -x ELSE x

\* radial_error: unsigned angle between two positions.
radial_error(a, b) == Abs(AngleTo(a, b))

-----------------------------------------------------------------------------
(* Sketches (sketch.rs) *)

\* Option::None and Option::Some
None == [none |-> TRUE]

Some(value) == [some |-> value]

\* Option<usize>::None of a position search.
NoIndex == 0 - 1

\* impl From<&SketchDescriptor> for Sketch: ids 0..n-1 in input order.
SketchFrom(descriptor) ==
    [ vertex_map        |-> [id \in 0 .. (Len(descriptor.vertices) - 1)
                                |-> descriptor.vertices[id + 1]],
      vertex_order      |-> [i \in 1 .. Len(descriptor.vertices) |-> i - 1],
      relative_position |-> descriptor.relative_position,
      rotation          |-> descriptor.rotation ]

\* Sketch::vertex_rotated: the raw position rotated by the sketch's rotation
\* about the stacking axis.
vertex_rotated(sketch, id) ==
    (sketch.vertex_map[id] + sketch.rotation) % FullTurn

\* SketchPair::new
SketchPair(lower, upper) == [lower |-> lower, upper |-> upper]

\* The descriptors of Lofter::default: the same square twice, the second one
\* three units up.
SquareVertices == <<0, 90, 180, 270>>

DefaultLowerDescriptor ==
    [vertices |-> SquareVertices, relative_position |-> 0, rotation |-> 0]

DefaultUpperDescriptor ==
    [vertices |-> SquareVertices, relative_position |-> 3, rotation |-> 0]

\* The 3-vertex ring of the integration test: (1,0), (0,1), (-1,-1).
TriangleVertices == <<0, 90, 225>>

\* Further simple counter-clockwise rings around the stacking axis, and the
\* two smallest rings: one vertex, and two vertices.
RingShapes ==
    { SquareVertices, TriangleVertices,
      <<45, 135, 225, 315>>, <<10, 50, 220>>, <<130, 300, 100>>,
      <<20, 100, 200, 280, 340>>, <<0, 45, 180, 315>>, <<135, 225, 0>>,
      <<90>>, <<0, 180>> }

Rotations == {0, 45}

\* The rotation set_sketch_rotation is called with, and the offset
\* set_sketch_relative_position is called with.
SetRotations == {45}

SetOffsets == {1}

\* LoftOptions::max_radial_edge_angle values: 50 is the default, 5 the
\* integration test's, 0 the strictest and 180 the largest possible error.
DefaultTolerance == 50

MaxTolerance == HalfTurn

Tolerances == {0, 5, DefaultTolerance, MaxTolerance}

\* The tolerances Lofter::loft is called with.
LoftTolerances == {5, DefaultTolerance, MaxTolerance}

-----------------------------------------------------------------------------
(* Edge candidates and their ranking (lib.rs) *)

\* edge_candidates: all lower x upper pairs in encounter order (lower vertex
\* order major, upper minor), with the radial error of the rotated positions.
edge_candidates(pair) ==
    LET a == pair.lower
        b == pair.upper
        n == Len(a.vertex_order)
        m == Len(b.vertex_order)
    IN  [ k \in 1 .. (n * m) |->
            LET i  == ((k - 1) \div m) + 1
                j  == ((k - 1) % m) + 1
                ia == a.vertex_order[i]
                ib == b.vertex_order[j]
            IN  [ radial_error |-> radial_error(vertex_rotated(a, ia),
                                                vertex_rotated(b, ib)),
                  vertices     |-> SketchPair(ia, ib),
                  encounter    |-> k,
                  minor        |-> (j - 1) * n + i ] ]

\* The orders sort_unstable_by may leave equal-error candidates in.
TieOrders == {"encounter", "reverse", "upper_major"}

TieKey(c, order) ==
    CASE order = "encounter"   -> c.encounter
      [] order = "reverse"     -> 0 - c.encounter
      [] order = "upper_major" -> c.minor

\* total_cmp on radial_error, ties in the order the sort leaves them.
CandidateBefore(c, d, order) ==
    \/ c.radial_error < d.radial_error
    \/ c.radial_error = d.radial_error /\ TieKey(c, order) < TieKey(d, order)

RECURSIVE InsertSorted(_, _, _)
InsertSorted(sorted, c, order) ==
    IF sorted = <<>> THEN <<c>>
    ELSE IF CandidateBefore(c, Head(sorted), order) THEN <<c>> \o sorted
    ELSE <<Head(sorted)>> \o InsertSorted(Tail(sorted), c, order)

RECURSIVE SortFrom(_, _, _, _)
SortFrom(cands, k, sorted, order) ==
    IF k > Len(cands) THEN sorted
    ELSE SortFrom(cands, k + 1, InsertSorted(sorted, cands[k], order), order)

\* edge_candidates.sort_unstable_by(|a, b| a.radial_error.total_cmp(..))
sort_unstable_by(cands, order) == SortFrom(cands, 1, <<>>, order)

-----------------------------------------------------------------------------
(* Vertex ranges (loft.rs) *)

\* Mutant of entire: the range is not flagged as covering the sketch.
entire_unflagged(id) == [range |-> <<id, id>>, covers_entire_sketch |-> FALSE]

\* SketchVertexRange::entire
entire(id) == [range |-> <<id, id>>, covers_entire_sketch |-> TRUE]

\* Mutant of split_at: the half after the vertex is returned first.
split_at_reversed(self, vertex) ==
    IF /\ self.covers_entire_sketch
       /\ self.range[1] = self.range[2]
       /\ self.range[2] = vertex
    THEN << self, [self EXCEPT !.covers_entire_sketch = FALSE] >>
    ELSE << [range |-> <<vertex, self.range[2]>>, covers_entire_sketch |-> FALSE],
            [range |-> <<self.range[1], vertex>>, covers_entire_sketch |-> FALSE] >>

\* SketchVertexRange::split_at
split_at(self, vertex) ==
    IF /\ self.covers_entire_sketch
       /\ self.range[1] = self.range[2]
       /\ self.range[2] = vertex
    THEN << self, [self EXCEPT !.covers_entire_sketch = FALSE] >>
    ELSE << [range |-> <<self.range[1], vertex>>, covers_entire_sketch |-> FALSE],
            [range |-> <<vertex, self.range[2]>>, covers_entire_sketch |-> FALSE] >>

\* vertex_order.iter().position(|&id| ...): 0-based index, NoIndex if absent.
position(order, id) ==
    IF \E i \in 1 .. Len(order) : order[i] = id
    THEN (CHOOSE i \in 1 .. Len(order) :
             order[i] = id /\ \A j \in 1 .. (i - 1) : order[j] # id) - 1
    ELSE NoIndex

\* Mutant of IterFrom: the iterator ends at the first vertex equal to the
\* range end even when the range covers the entire sketch.
RECURSIVE IterFromUnflagged(_, _, _, _)
IterFromUnflagged(range, sketch, index, has_visited_first_vertex) ==
    LET vertex_id == sketch.vertex_order[index + 1]
    IN  IF vertex_id # range.range[2]
        THEN <<vertex_id>> \o IterFromUnflagged(range, sketch,
                                       (index + 1) % Len(sketch.vertex_order),
                                       has_visited_first_vertex)
        ELSE <<vertex_id>>

\* SketchVertexRangeIter::next, repeated until it returns None: the vertex
\* ids the iterator yields from next_index on.
RECURSIVE IterFrom(_, _, _, _)
IterFrom(range, sketch, index, has_visited_first_vertex) ==
    LET vertex_id == sketch.vertex_order[index + 1]
        continues == \/ vertex_id # range.range[2]
                     \/ range.covers_entire_sketch /\ ~has_visited_first_vertex
        visited   == has_visited_first_vertex \/ vertex_id = range.range[1]
    IN  IF continues
        THEN <<vertex_id>> \o IterFrom(range, sketch,
                                       (index + 1) % Len(sketch.vertex_order),
                                       visited)
        ELSE <<vertex_id>>

\* SketchVertexRange::iter, collected.
iter(range, sketch) ==
    LET next_index == position(sketch.vertex_order, range.range[1])
    IN  IF next_index = NoIndex THEN <<>>
        ELSE IterFrom(range, sketch, next_index, FALSE)

Contains(seq, x) == \E i \in 1 .. Len(seq) : seq[i] = x

-----------------------------------------------------------------------------
(* LoftBuilder (loft.rs) *)

\* LoftSection::uninitialized_with_ranges
uninitialized_with_ranges(lower, upper) ==
    [sketch_vertex_ranges |-> SketchPair(lower, upper), loft_edges |-> <<>>]

\* LoftSection::uninitialized_with_entire_ranges
uninitialized_with_entire_ranges(lower, upper) ==
    uninitialized_with_ranges(entire(lower), entire(upper))

\* The closure of edge_candidate_section_index.
SectionContains(section, pair, vertices) ==
    /\ Contains(iter(section.sketch_vertex_ranges.lower, pair.lower), vertices.lower)
    /\ Contains(iter(section.sketch_vertex_ranges.upper, pair.upper), vertices.upper)

\* Mutant of edge_candidate_section_index: a section is taken as soon as its
\* lower range holds the lower vertex.
edge_candidate_section_index_lower(sections, pair, vertices) ==
    IF \E i \in 1 .. Len(sections) :
          Contains(iter(sections[i].sketch_vertex_ranges.lower, pair.lower),
                   vertices.lower)
    THEN CHOOSE i \in 1 .. Len(sections) :
            /\ Contains(iter(sections[i].sketch_vertex_ranges.lower, pair.lower),
                        vertices.lower)
            /\ \A j \in 1 .. (i - 1) :
                  ~Contains(iter(sections[j].sketch_vertex_ranges.lower, pair.lower),
                            vertices.lower)
    ELSE NoIndex

\* LoftBuilder::edge_candidate_section_index: 1-based index of the first
\* section holding both vertices, NoIndex if there is none.
edge_candidate_section_index(sections, pair, vertices) ==
    IF \E i \in 1 .. Len(sections) : SectionContains(sections[i], pair, vertices)
    THEN CHOOSE i \in 1 .. Len(sections) :
            /\ SectionContains(sections[i], pair, vertices)
            /\ \A j \in 1 .. (i - 1) : ~SectionContains(sections[j], pair, vertices)
    ELSE NoIndex

\* Mutant of ReplaceByTwo: the two new sections are pushed at the end.
ReplaceByTwoPushed(sections, index, a, b) ==
    SubSeq(sections, 1, index - 1) \o SubSeq(sections, index + 1, Len(sections))
        \o <<a, b>>

\* Vec::remove followed by the two Vec::insert calls of try_split_section.
ReplaceByTwo(sections, index, a, b) ==
    SubSeq(sections, 1, index - 1) \o <<a, b>>
        \o SubSeq(sections, index + 1, Len(sections))

\* The swap of the two halves of a split when the first half still covers
\* the whole sketch.
SplitRanges(section, pair, vertices) ==
    LET lower == split_at(section.sketch_vertex_ranges.lower, vertices.lower)
        upper == split_at(section.sketch_vertex_ranges.upper, vertices.upper)
    IN  IF /\ lower[1].covers_entire_sketch
           /\ Len(iter(upper[1], pair.upper)) = 2
        THEN SketchPair(<<lower[2], lower[1]>>, upper)
        ELSE IF /\ upper[1].covers_entire_sketch
                /\ Len(iter(lower[1], pair.lower)) = 2
        THEN SketchPair(lower, <<upper[2], upper[1]>>)
        ELSE SketchPair(lower, upper)

\* LoftBuilder::try_split_section: the section list after the call.
try_split_section(sections, pair, vertices) ==
    IF sections = <<>>
    THEN <<uninitialized_with_entire_ranges(vertices.lower, vertices.upper)>>
    ELSE LET section_index == edge_candidate_section_index(sections, pair, vertices)
         IN  IF section_index = NoIndex THEN sections
             ELSE LET split_ranges == SplitRanges(sections[section_index], pair, vertices)
                  IN  ReplaceByTwo(sections, section_index,
                          uninitialized_with_ranges(split_ranges.lower[1],
                                                    split_ranges.upper[1]),
                          uninitialized_with_ranges(split_ranges.lower[2],
                                                    split_ranges.upper[2]))

-----------------------------------------------------------------------------
(* The merge sweep (loft.rs, build_loft_edges) *)

\* LoftVertex::SketchVertex
SketchVertex(id) == [kind |-> "SketchVertex", id |-> id]

\* LoftVertex::SketchEdge
SketchEdge(edge, length) ==
    [kind |-> "SketchEdge", edge |-> edge, edge_length |-> length]

\* edge_length: the law-of-sines distance is a function of the angle from the
\* edge's first vertex to the pinned vertex (angle_a of the second solve) and
\* of the angle the edge spans (angle_a of the first solve); the model keeps
\* these two angles as the value.
edge_length(vertex_position, edge_vertex_positions) ==
    [ to_vertex |-> AngleTo(edge_vertex_positions[1], vertex_position),
      spanned   |-> AngleTo(edge_vertex_positions[1], edge_vertex_positions[2]) ]

\* Mutant of SweepEdge: the signed angle is compared with the tolerance.
SweepEdgeSigned(pair, max_radial_error, cur, has_next, next) ==
    LET cur_lower      == cur.lower
        cur_upper      == cur.upper
        has_next_lower == has_next.lower
        has_next_upper == has_next.upper
        next_lower     == next.lower
        next_upper     == next.upper
        pos_lower      == pair.lower.vertex_map[cur_lower]
        pos_upper      == pair.upper.vertex_map[cur_upper]
    IN  IF AngleTo(pos_lower, pos_upper) <= max_radial_error
        THEN SketchPair(SketchVertex(cur_lower), SketchVertex(cur_upper))
        ELSE IF AngleTo(pos_lower, pos_upper) < 0
        THEN \* pair_vertex_index = 0: lower vertex, edge on the upper sketch
             IF ~has_next_upper THEN None
             ELSE SketchPair(
                    SketchVertex(cur_lower),
                    SketchEdge(<<cur_upper, next_upper>>,
                               edge_length(pos_lower,
                                   <<pos_upper, pair.upper.vertex_map[next_upper]>>)))
        ELSE \* pair_vertex_index = 1: upper vertex, edge on the lower sketch
             IF ~has_next_lower THEN None
             ELSE SketchPair(
                    SketchEdge(<<cur_lower, next_lower>>,
                               edge_length(pos_upper,
                                   <<pos_lower, pair.lower.vertex_map[next_lower]>>)),
                    SketchVertex(cur_upper))

\* Mutant of SweepEdge: the vertex of the ring that is behind is kept, and the
\* edge is put on the ring that is ahead.
SweepEdgePinsBehind(pair, max_radial_error, cur, has_next, next) ==
    LET cur_lower      == cur.lower
        cur_upper      == cur.upper
        has_next_lower == has_next.lower
        has_next_upper == has_next.upper
        next_lower     == next.lower
        next_upper     == next.upper
        pos_lower      == pair.lower.vertex_map[cur_lower]
        pos_upper      == pair.upper.vertex_map[cur_upper]
    IN  IF radial_error(pos_lower, pos_upper) <= max_radial_error
        THEN SketchPair(SketchVertex(cur_lower), SketchVertex(cur_upper))
        ELSE IF AngleTo(pos_lower, pos_upper) > 0
        THEN IF ~has_next_upper THEN None
             ELSE SketchPair(
                    SketchVertex(cur_lower),
                    SketchEdge(<<cur_upper, next_upper>>,
                               edge_length(pos_lower,
                                   <<pos_upper, pair.upper.vertex_map[next_upper]>>)))
        ELSE IF ~has_next_lower THEN None
             ELSE SketchPair(
                    SketchEdge(<<cur_lower, next_lower>>,
                               edge_length(pos_upper,
                                   <<pos_lower, pair.lower.vertex_map[next_lower]>>)),
                    SketchVertex(cur_upper))

\* Mutant of SweepEdge: every edge joins the two current vertices directly.
SweepEdgeAlwaysDirect(pair, max_radial_error, cur, has_next, next) ==
    SketchPair(SketchVertex(cur.lower), SketchVertex(cur.upper))

\* The edge pushed by one iteration of the sweep for the current vertices cur,
\* given what peek() returns on either iterator (has_next, next); None when
\* peek().unwrap() on the edge's sketch fails.
SweepEdge(pair, max_radial_error, cur, has_next, next) ==
    LET cur_lower      == cur.lower
        cur_upper      == cur.upper
        has_next_lower == has_next.lower
        has_next_upper == has_next.upper
        next_lower     == next.lower
        next_upper     == next.upper
        pos_lower      == pair.lower.vertex_map[cur_lower]
        pos_upper      == pair.upper.vertex_map[cur_upper]
    IN  IF radial_error(pos_lower, pos_upper) <= max_radial_error
        THEN SketchPair(SketchVertex(cur_lower), SketchVertex(cur_upper))
        ELSE IF AngleTo(pos_lower, pos_upper) < 0
        THEN \* pair_vertex_index = 0: lower vertex, edge on the upper sketch
             IF ~has_next_upper THEN None
             ELSE SketchPair(
                    SketchVertex(cur_lower),
                    SketchEdge(<<cur_upper, next_upper>>,
                               edge_length(pos_lower,
                                   <<pos_upper, pair.upper.vertex_map[next_upper]>>)))
        ELSE \* pair_vertex_index = 1: upper vertex, edge on the lower sketch
             IF ~has_next_lower THEN None
             ELSE SketchPair(
                    SketchEdge(<<cur_lower, next_lower>>,
                               edge_length(pos_upper,
                                   <<pos_lower, pair.lower.vertex_map[next_lower]>>)),
                    SketchVertex(cur_upper))

\* Mutant of Sweep: the sweep does not stop when the two next vertices are
\* within the tolerance.
RECURSIVE SweepNoStop(_, _, _, _, _, _, _)
SweepNoStop(il, iu, pair, max_radial_error, pl, pu, loft_edges) ==
    LET has_next_lower == pl < Len(il)
        has_next_upper == pu < Len(iu)
        next_lower     == IF has_next_lower THEN il[pl + 1] ELSE il[pl]
        next_upper     == IF has_next_upper THEN iu[pu + 1] ELSE iu[pu]
    IN  IF ~has_next_lower /\ ~has_next_upper
        THEN [loft_edges |-> loft_edges, panic |-> FALSE, stop |-> None]
        ELSE
          LET loft_edge == SweepEdge(pair, max_radial_error,
                                     SketchPair(il[pl], iu[pu]),
                                     SketchPair(has_next_lower, has_next_upper),
                                     SketchPair(next_lower, next_upper))
          IN  IF loft_edge = None
              THEN [loft_edges |-> loft_edges, panic |-> TRUE, stop |-> None]
              ELSE
                LET pushed == Append(loft_edges, loft_edge)
                    angle  == AngleTo(pair.lower.vertex_map[next_lower],
                                      pair.upper.vertex_map[next_upper])
                IN  IF has_next_lower /\ ~has_next_upper
                    THEN SweepNoStop(il, iu, pair, max_radial_error, pl + 1, pu, pushed)
                    ELSE IF ~has_next_lower /\ has_next_upper
                    THEN SweepNoStop(il, iu, pair, max_radial_error, pl, pu + 1, pushed)
                    ELSE IF angle > 0
                    THEN SweepNoStop(il, iu, pair, max_radial_error, pl + 1, pu, pushed)
                    ELSE SweepNoStop(il, iu, pair, max_radial_error, pl, pu + 1, pushed)

\* Mutant of Sweep: when the next lower vertex is behind the next upper one,
\* both rings are advanced.
RECURSIVE SweepBoth(_, _, _, _, _, _, _)
SweepBoth(il, iu, pair, max_radial_error, pl, pu, loft_edges) ==
    LET has_next_lower == pl < Len(il)
        has_next_upper == pu < Len(iu)
        next_lower     == IF has_next_lower THEN il[pl + 1] ELSE il[pl]
        next_upper     == IF has_next_upper THEN iu[pu + 1] ELSE iu[pu]
    IN  IF ~has_next_lower /\ ~has_next_upper
        THEN [loft_edges |-> loft_edges, panic |-> FALSE, stop |-> None]
        ELSE
          LET loft_edge == SweepEdge(pair, max_radial_error,
                                     SketchPair(il[pl], iu[pu]),
                                     SketchPair(has_next_lower, has_next_upper),
                                     SketchPair(next_lower, next_upper))
          IN  IF loft_edge = None
              THEN [loft_edges |-> loft_edges, panic |-> TRUE, stop |-> None]
              ELSE
                LET pushed == Append(loft_edges, loft_edge)
                    angle  == AngleTo(pair.lower.vertex_map[next_lower],
                                      pair.upper.vertex_map[next_upper])
                IN  IF has_next_lower /\ ~has_next_upper
                    THEN SweepBoth(il, iu, pair, max_radial_error, pl + 1, pu, pushed)
                    ELSE IF ~has_next_lower /\ has_next_upper
                    THEN SweepBoth(il, iu, pair, max_radial_error, pl, pu + 1, pushed)
                    ELSE IF Abs(angle) <= max_radial_error
                    THEN [loft_edges |-> pushed, panic |-> FALSE,
                          stop |-> Some(SketchPair(pl + 1, pu + 1))]
                    ELSE IF angle > 0
                    THEN SweepBoth(il, iu, pair, max_radial_error, pl + 1, pu + 1, pushed)
                    ELSE SweepBoth(il, iu, pair, max_radial_error, pl, pu + 1, pushed)

\* The while loop of build_loft_edges.  il and iu are the vertex ids the two
\* range iterators yield; pl and pu index the current vertex of each.  stop
\* holds the places in il and iu of the two peeked vertices at which the
\* break of the loop was taken, None when the loop ended otherwise.
RECURSIVE Sweep(_, _, _, _, _, _, _)
Sweep(il, iu, pair, max_radial_error, pl, pu, loft_edges) ==
    LET has_next_lower == pl < Len(il)
        has_next_upper == pu < Len(iu)
        next_lower     == IF has_next_lower THEN il[pl + 1] ELSE il[pl]
        next_upper     == IF has_next_upper THEN iu[pu + 1] ELSE iu[pu]
    IN  IF ~has_next_lower /\ ~has_next_upper
        THEN [loft_edges |-> loft_edges, panic |-> FALSE, stop |-> None]
        ELSE
          LET loft_edge == SweepEdge(pair, max_radial_error,
                                     SketchPair(il[pl], iu[pu]),
                                     SketchPair(has_next_lower, has_next_upper),
                                     SketchPair(next_lower, next_upper))
          IN  IF loft_edge = None
              THEN [loft_edges |-> loft_edges, panic |-> TRUE, stop |-> None]
              ELSE
                LET pushed == Append(loft_edges, loft_edge)
                    angle  == AngleTo(pair.lower.vertex_map[next_lower],
                                      pair.upper.vertex_map[next_upper])
                IN  IF has_next_lower /\ ~has_next_upper
                    THEN Sweep(il, iu, pair, max_radial_error, pl + 1, pu, pushed)
                    ELSE IF ~has_next_lower /\ has_next_upper
                    THEN Sweep(il, iu, pair, max_radial_error, pl, pu + 1, pushed)
                    ELSE IF Abs(angle) <= max_radial_error
                    THEN [loft_edges |-> pushed, panic |-> FALSE,
                          stop |-> Some(SketchPair(pl + 1, pu + 1))]
                    ELSE IF angle > 0
                    THEN Sweep(il, iu, pair, max_radial_error, pl + 1, pu, pushed)
                    ELSE Sweep(il, iu, pair, max_radial_error, pl, pu + 1, pushed)

\* build_loft_edges: the edges of one range pair, and whether an unwrap or an
\* index of the sweep panicked.
build_loft_edges(sketch_vertex_ranges, pair, max_radial_error) ==
    LET il == iter(sketch_vertex_ranges.lower, pair.lower)
        iu == iter(sketch_vertex_ranges.upper, pair.upper)
    IN  IF il = <<>> \/ iu = <<>>
        THEN [loft_edges |-> <<>>, panic |-> TRUE, stop |-> None]
        ELSE Sweep(il, iu, pair, max_radial_error, 1, 1, <<>>)

\* Mutant of build: the fallback sweep is anchored at the last vertex of
\* either ring.
build_anchored_last(sections, pair, max_radial_error) ==
    IF sections = <<>>
    THEN IF pair.lower.vertex_order = <<>> \/ pair.upper.vertex_order = <<>>
         THEN [loft |-> None, panic |-> TRUE]
         ELSE LET r == build_loft_edges(
                         SketchPair(
                           entire(pair.lower.vertex_order[Len(pair.lower.vertex_order)]),
                           entire(pair.upper.vertex_order[Len(pair.upper.vertex_order)])),
                         pair, max_radial_error)
              IN  [ loft  |-> [sections |-> <<>>,
                               sectionless_loft_map |-> Some(r.loft_edges)],
                    panic |-> r.panic ]
    ELSE LET built == [ i \in 1 .. Len(sections) |->
                          build_loft_edges(sections[i].sketch_vertex_ranges,
                                           pair, max_radial_error) ]
         IN  [ loft  |-> [ sections |-> [ i \in 1 .. Len(sections) |->
                                 [sections[i] EXCEPT !.loft_edges = built[i].loft_edges] ],
                           sectionless_loft_map |-> None ],
               panic |-> \E i \in 1 .. Len(sections) : built[i].panic ]

\* LoftBuilder::build: the Loft, and whether building it panicked.
build(sections, pair, max_radial_error) ==
    IF sections = <<>>
    THEN IF pair.lower.vertex_order = <<>> \/ pair.upper.vertex_order = <<>>
         THEN [loft |-> None, panic |-> TRUE]
         ELSE LET r == build_loft_edges(
                         SketchPair(entire(pair.lower.vertex_order[1]),
                                    entire(pair.upper.vertex_order[1])),
                         pair, max_radial_error)
              IN  [ loft  |-> [sections |-> <<>>,
                               sectionless_loft_map |-> Some(r.loft_edges)],
                    panic |-> r.panic ]
    ELSE LET built == [ i \in 1 .. Len(sections) |->
                          build_loft_edges(sections[i].sketch_vertex_ranges,
                                           pair, max_radial_error) ]
         IN  [ loft  |-> [ sections |-> [ i \in 1 .. Len(sections) |->
                                 [sections[i] EXCEPT !.loft_edges = built[i].loft_edges] ],
                           sectionless_loft_map |-> None ],
               panic |-> \E i \in 1 .. Len(sections) : built[i].panic ]

\* The candidate loop of loft_sketches: the sections after visiting the
\* sorted candidates from index k on.
RECURSIVE SplitAll(_, _, _, _, _)
SplitAll(sections, pair, cands, k, max_radial_error) ==
    IF k > Len(cands) THEN sections
    ELSE IF cands[k].radial_error > max_radial_error THEN sections
    ELSE SplitAll(try_split_section(sections, pair, cands[k].vertices),
                  pair, cands, k + 1, max_radial_error)

\* loft_sketches
loft_sketches(pair, max_radial_edge_angle, order) ==
    build(SplitAll(<<>>, pair, sort_unstable_by(edge_candidates(pair), order),
                   1, max_radial_edge_angle),
          pair, max_radial_edge_angle)

-----------------------------------------------------------------------------
(* Triangle extraction (loft.rs, Loft::append_vertex_buffer) *)

\* Whether LoftVertex::to_pos finds every vertex it indexes in vertex_map.
ToPosDefined(loft_vertex, sketch) ==
    IF loft_vertex.kind = "SketchVertex"
    THEN loft_vertex.id \in DOMAIN sketch.vertex_map
    ELSE /\ loft_vertex.edge[1] \in DOMAIN sketch.vertex_map
         /\ loft_vertex.edge[2] \in DOMAIN sketch.vertex_map

\* LoftVertex::to_pos: the position in the sketch's vertex_map (for an edge
\* vertex the point edge_length along the edge) plus relative_position.
to_pos(loft_vertex, sketch) ==
    IF loft_vertex.kind = "SketchVertex"
    THEN [ xy |-> <<sketch.vertex_map[loft_vertex.id]>>,
           z  |-> sketch.relative_position ]
    ELSE [ xy |-> << sketch.vertex_map[loft_vertex.edge[1]],
                     sketch.vertex_map[loft_vertex.edge[2]],
                     loft_vertex.edge_length >>,
           z  |-> sketch.relative_position ]

\* Mutant of FaceTriangles: every pair of edges gets the two triangles of a
\* quad.
FaceTrianglesQuad(prev, cur, pair) ==
    << << to_pos(prev.upper, pair.upper), to_pos(prev.lower, pair.lower),
          to_pos(cur.lower, pair.lower) >>,
       << to_pos(prev.upper, pair.upper), to_pos(cur.lower, pair.lower),
          to_pos(cur.upper, pair.upper) >> >>

\* The triangles append_iterator pushes for one (prev, cur) pair of edges.
FaceTriangles(prev, cur, pair) ==
    IF prev.lower = cur.lower
    THEN << << to_pos(prev.upper, pair.upper), to_pos(cur.lower, pair.lower),
               to_pos(cur.upper, pair.upper) >> >>
    ELSE IF prev.upper = cur.upper
    THEN << << to_pos(prev.upper, pair.upper), to_pos(prev.lower, pair.lower),
               to_pos(cur.lower, pair.lower) >> >>
    ELSE << << to_pos(prev.upper, pair.upper), to_pos(prev.lower, pair.lower),
               to_pos(cur.lower, pair.lower) >>,
            << to_pos(prev.upper, pair.upper), to_pos(cur.lower, pair.lower),
               to_pos(cur.upper, pair.upper) >> >>

\* append_iterator: the loop over loft_edges starting with prev_loft_edge.
RECURSIVE append_iterator(_, _, _, _)
append_iterator(prev_loft_edge, loft_edges, k, pair) ==
    IF k > Len(loft_edges) THEN <<>>
    ELSE FaceTriangles(prev_loft_edge, loft_edges[k], pair)
            \o append_iterator(loft_edges[k], loft_edges, k + 1, pair)

\* The (prev_loft_edge, loft_edge) pairs the loop of append_iterator goes
\* through, in order.
RECURSIVE IteratedPairs(_, _, _)
IteratedPairs(prev_loft_edge, loft_edges, k) ==
    IF k > Len(loft_edges) THEN <<>>
    ELSE << [prev |-> prev_loft_edge, cur |-> loft_edges[k]] >>
            \o IteratedPairs(loft_edges[k], loft_edges, k + 1)

RECURSIVE Flatten(_, _)
Flatten(sections, k) ==
    IF k > Len(sections) THEN <<>>
    ELSE sections[k].loft_edges \o Flatten(sections, k + 1)

\* The edges a loft holds: the concatenated section edges or the fallback list.
LoftEdges(loft) ==
    IF loft.sectionless_loft_map # None
    THEN loft.sectionless_loft_map.some
    ELSE Flatten(loft.sections, 1)

\* The edge sequence handed to append_iterator: every edge, chained with the
\* first edge once more.
ChainedEdges(loft) == LoftEdges(loft) \o <<LoftEdges(loft)[1]>>

\* The unwraps and indexings of append_vertex_buffer that fail.
AppendPanics(loft, pair) ==
    \/ /\ loft.sectionless_loft_map # None
       /\ loft.sectionless_loft_map.some = <<>>
    \/ /\ loft.sectionless_loft_map = None
       /\ \/ loft.sections = <<>>
          \/ loft.sections[Len(loft.sections)].loft_edges = <<>>
          \/ loft.sections[1].loft_edges = <<>>
    \/ \E k \in 1 .. Len(LoftEdges(loft)) :
          \/ ~ToPosDefined(LoftEdges(loft)[k].lower, pair.lower)
          \/ ~ToPosDefined(LoftEdges(loft)[k].upper, pair.upper)

\* Loft::append_vertex_buffer: the triangles appended for one loft.
append_vertex_buffer(loft, pair) ==
    LET edges == LoftEdges(loft)
    IN  append_iterator(edges[Len(edges)], ChainedEdges(loft), 1, pair)

\* The edge pairs append_vertex_buffer hands to the loop of append_iterator.
ProcessedPairs(loft) ==
    LET edges == LoftEdges(loft)
    IN  IteratedPairs(edges[Len(edges)], ChainedEdges(loft), 1)

-----------------------------------------------------------------------------
(* Lofter (lib.rs) *)

\* self.sketches.windows(2), 1-based: window i is sketches i and i + 1.
Window(s, i) == SketchPair(s[i], s[i + 1])

NumWindows(s) == IF Len(s) < 2 THEN 0 ELSE Len(s) - 1

\* zip(&self.loft_maps, self.sketches.windows(2)) stops at the shorter one.
NumZipped(s, maps) ==
    IF Len(maps) < NumWindows(s) THEN Len(maps) ELSE NumWindows(s)

RECURSIVE VertexBufferFrom(_, _, _)
VertexBufferFrom(s, maps, i) ==
    IF i > NumZipped(s, maps) THEN <<>>
    ELSE append_vertex_buffer(maps[i], Window(s, i))
            \o VertexBufferFrom(s, maps, i + 1)

\* Lofter::vertex_buffer: triangles of three positions each.
vertex_buffer(s, maps) == VertexBufferFrom(s, maps, 1)

VertexBufferPanics(s, maps) ==
    \E i \in 1 .. NumZipped(s, maps) : AppendPanics(maps[i], Window(s, i))

\* The lofts Lofter::loft collects, one per window.
LoftAll(s, tol, order) ==
    [ i \in 1 .. NumWindows(s) |-> loft_sketches(Window(s, i), tol, order) ]

\* Lofter::sketch_rotation
sketch_rotation(s, sketch_index) ==
    IF sketch_index >= Len(s) THEN None
    ELSE Some(s[sketch_index + 1].rotation)

\* Lofter::sketch_relative_position
sketch_relative_position(s, sketch_index) ==
    IF sketch_index >= Len(s) THEN None
    ELSE Some(s[sketch_index + 1].relative_position)

\* Lofter::vertices, collected: (id, position) in vertex order.
vertices(s, sketch_index) ==
    IF sketch_index >= Len(s) THEN None
    ELSE LET sketch == s[sketch_index + 1]
         IN  Some([ i \in 1 .. Len(sketch.vertex_order) |->
                      << sketch.vertex_order[i],
                         sketch.vertex_map[sketch.vertex_order[i]] >> ])

\* Lofter::get_vertex
get_vertex(s, sketch_index, vertex_id) ==
    IF sketch_index >= Len(s) THEN None
    ELSE IF vertex_id \notin DOMAIN s[sketch_index + 1].vertex_map THEN None
    ELSE Some(s[sketch_index + 1].vertex_map[vertex_id])

-----------------------------------------------------------------------------
(* The Lofter as a state machine: Lofter::default, then calls of its API *)

\* The descriptors pushed by the integration test after Lofter::default.
TriangleDescriptor ==
    [vertices |-> TriangleVertices, relative_position |-> 0, rotation |-> 0]

PushDescriptors ==
    { TriangleDescriptor,
      [vertices |-> SquareVertices, relative_position |-> 1, rotation |-> 0] }

\* The descriptor insert_sketch is called with.
InsertDescriptors == {TriangleDescriptor}

\* Vertex ids tried by get_vertex_mut (3 is a vertex of the squares and of no
\* triangle), positions written through it, and the turn the closure of
\* vertices_mut gives every vertex.
EditIds == {3}

EditPositions == {30}

EditTurns == {15}

DefaultSketches ==
    << SketchFrom(DefaultLowerDescriptor), SketchFrom(DefaultUpperDescriptor) >>

\* Vec::insert at a 0-based index.
InsertAt(s, index, x) ==
    SubSeq(s, 1, index) \o <<x>> \o SubSeq(s, index + 1, Len(s))

\* Vec::remove at a 0-based index.
RemoveAt(s, index) ==
    SubSeq(s, 1, index) \o SubSeq(s, index + 2, Len(s))

CanCall == ~panicked /\ calls < MaxCalls

Called(c) == call' = c /\ calls' = calls + 1

\* Lofter::default: two squares pushed, then lofted with LoftOptions::default.
Init ==
    /\ tie_order \in TieOrders
    /\ sketches = DefaultSketches
    /\ loft_maps = [ i \in 1 .. NumWindows(DefaultSketches) |->
                       LoftAll(DefaultSketches, DefaultTolerance, tie_order)[i].loft ]
    /\ call = [op |-> "default"]
    /\ panicked = FALSE
    /\ calls = 0
    /\ b_sketches = None
    /\ b_sections = <<>>
    /\ b_candidates = <<>>
    /\ b_tol = 0
    /\ b_pc = "idle"
    /\ b_loft = None
    /\ b_last = None
    /\ b_calls = <<>>

\* Mutant of insert_sketch: the cached lofts are dropped with the insertion.
insert_sketch_clearing(sketch_index, descriptor, op) ==
    /\ CanCall
    /\ Called([op |-> op, sketch_index |-> sketch_index])
    /\ IF sketch_index > Len(sketches)
       THEN panicked' = TRUE /\ sketches' = sketches /\ loft_maps' = loft_maps
       ELSE /\ sketches' = InsertAt(sketches, sketch_index, SketchFrom(descriptor))
            /\ panicked' = FALSE
            /\ loft_maps' = <<>>
    /\ UNCHANGED <<tie_order, builderVars>>

\* Lofter::insert_sketch; Vec::insert panics when the index is past the end.
insert_sketch(sketch_index, descriptor, op) ==
    /\ CanCall
    /\ Called([op |-> op, sketch_index |-> sketch_index])
    /\ IF sketch_index > Len(sketches)
       THEN panicked' = TRUE /\ sketches' = sketches
       ELSE /\ sketches' = InsertAt(sketches, sketch_index, SketchFrom(descriptor))
            /\ panicked' = FALSE
    /\ UNCHANGED <<loft_maps, tie_order, builderVars>>

InsertSketch ==
    \E descriptor \in InsertDescriptors, sketch_index \in 0 .. (Len(sketches) + 1) :
        /\ Len(sketches) < MaxSketches
        /\ insert_sketch(sketch_index, descriptor, "insert_sketch")

\* Lofter::push_sketch
PushSketch ==
    \E descriptor \in PushDescriptors :
        /\ Len(sketches) < MaxSketches
        /\ insert_sketch(Len(sketches), descriptor, "push_sketch")

\* Lofter::remove_sketch; Vec::remove panics when the index is out of range.
RemoveSketch ==
    \E sketch_index \in 0 .. Len(sketches) :
        /\ CanCall
        /\ Called([op |-> "remove_sketch", sketch_index |-> sketch_index])
        /\ IF sketch_index >= Len(sketches)
           THEN panicked' = TRUE /\ sketches' = sketches
           ELSE sketches' = RemoveAt(sketches, sketch_index) /\ panicked' = FALSE
        /\ UNCHANGED <<loft_maps, tie_order, builderVars>>

\* Lofter::set_sketch_rotation
SetSketchRotation ==
    \E sketch_index \in 0 .. Len(sketches), rotation \in SetRotations :
        /\ CanCall
        /\ Called([op |-> "set_sketch_rotation", sketch_index |-> sketch_index,
                   rotation |-> rotation])
        /\ IF sketch_index >= Len(sketches)
           THEN sketches' = sketches
           ELSE sketches' = [sketches EXCEPT ![sketch_index + 1].rotation = rotation]
        /\ UNCHANGED <<loft_maps, panicked, tie_order, builderVars>>

\* Lofter::set_sketch_relative_position
SetSketchRelativePosition ==
    \E sketch_index \in 0 .. Len(sketches), relative_position \in SetOffsets :
        /\ CanCall
        /\ Called([op |-> "set_sketch_relative_position",
                   sketch_index |-> sketch_index,
                   relative_position |-> relative_position])
        /\ IF sketch_index >= Len(sketches)
           THEN sketches' = sketches
           ELSE sketches' = [sketches EXCEPT
                                ![sketch_index + 1].relative_position = relative_position]
        /\ UNCHANGED <<loft_maps, panicked, tie_order, builderVars>>

\* Mutant of GetVertexMut: an id the sketch does not have is inserted into
\* its vertex_map.
GetVertexMutInserting ==
    \E sketch_index \in 0 .. Len(sketches), vertex_id \in EditIds,
       pos \in EditPositions :
        /\ CanCall
        /\ Called([op |-> "get_vertex_mut", sketch_index |-> sketch_index,
                   vertex_id |-> vertex_id])
        /\ IF sketch_index < Len(sketches)
           THEN sketches' = [sketches EXCEPT ![sketch_index + 1].vertex_map =
                    [ id \in DOMAIN sketches[sketch_index + 1].vertex_map
                                \cup {vertex_id} |->
                        IF id = vertex_id THEN pos
                        ELSE sketches[sketch_index + 1].vertex_map[id] ]]
           ELSE sketches' = sketches
        /\ UNCHANGED <<loft_maps, panicked, tie_order, builderVars>>

\* Lofter::get_vertex_mut, and the caller's write through the reference it
\* returns (nothing is written when it returns None).
GetVertexMut ==
    \E sketch_index \in 0 .. Len(sketches), vertex_id \in EditIds,
       pos \in EditPositions :
        /\ CanCall
        /\ Called([op |-> "get_vertex_mut", sketch_index |-> sketch_index,
                   vertex_id |-> vertex_id])
        /\ IF /\ sketch_index < Len(sketches)
              /\ vertex_id \in DOMAIN sketches[sketch_index + 1].vertex_map
           THEN sketches' = [sketches EXCEPT
                                ![sketch_index + 1].vertex_map[vertex_id] = pos]
           ELSE sketches' = sketches
        /\ UNCHANGED <<loft_maps, panicked, tie_order, builderVars>>

\* Lofter::vertices_mut with a closure that turns every vertex by the same
\* angle; indexing self.sketches panics when the index is out of range.
VerticesMut ==
    \E sketch_index \in 0 .. Len(sketches), turn \in EditTurns :
        /\ CanCall
        /\ Called([op |-> "vertices_mut", sketch_index |-> sketch_index])
        /\ IF sketch_index >= Len(sketches)
           THEN panicked' = TRUE /\ sketches' = sketches
           ELSE /\ panicked' = FALSE
                /\ sketches' = [sketches EXCEPT ![sketch_index + 1].vertex_map =
                      [ id \in DOMAIN sketches[sketch_index + 1].vertex_map |->
                          (sketches[sketch_index + 1].vertex_map[id] + turn) % FullTurn ]]
        /\ UNCHANGED <<loft_maps, tie_order, builderVars>>

\* Mutant of loft: the new lofts are appended to the cached ones.
loft_appending(max_radial_edge_angle) ==
    LET lofted == LoftAll(sketches, max_radial_edge_angle, tie_order)
    IN  IF \E i \in 1 .. Len(lofted) : lofted[i].panic
        THEN panicked' = TRUE /\ loft_maps' = loft_maps
        ELSE /\ panicked' = FALSE
             /\ loft_maps' = loft_maps \o [ i \in 1 .. Len(lofted) |-> lofted[i].loft ]

\* Lofter::loft: every window lofted anew; a panic of one loft_sketches
\* leaves self.loft_maps unassigned.
loft(max_radial_edge_angle) ==
    LET lofted == LoftAll(sketches, max_radial_edge_angle, tie_order)
    IN  IF \E i \in 1 .. Len(lofted) : lofted[i].panic
        THEN panicked' = TRUE /\ loft_maps' = loft_maps
        ELSE /\ panicked' = FALSE
             /\ loft_maps' = [ i \in 1 .. Len(lofted) |-> lofted[i].loft ]

Loft ==
    \E max_radial_edge_angle \in LoftTolerances :
        /\ CanCall
        /\ Called([op |-> "loft", max_radial_edge_angle |-> max_radial_edge_angle,
                   again |-> IF call.op = "loft"
                             THEN call.max_radial_edge_angle = max_radial_edge_angle
                             ELSE FALSE])
        /\ loft(max_radial_edge_angle)
        /\ UNCHANGED <<sketches, tie_order, builderVars>>

\* Lofter::vertex_buffer; the buffer it returns is kept in the call record.
VertexBuffer ==
    /\ CanCall
    /\ IF VertexBufferPanics(sketches, loft_maps)
       THEN /\ panicked' = TRUE
            /\ Called([op |-> "vertex_buffer", result |-> <<>>])
       ELSE /\ panicked' = FALSE
            /\ Called([op |-> "vertex_buffer",
                       result |-> vertex_buffer(sketches, loft_maps)])
    /\ UNCHANGED <<sketches, loft_maps, tie_order, builderVars>>

Next ==
    \/ PushSketch
    \/ InsertSketch
    \/ RemoveSketch
    \/ SetSketchRotation
    \/ SetSketchRelativePosition
    \/ GetVertexMut
    \/ VerticesMut
    \/ Loft
    \/ VertexBuffer

Spec == Init /\ [][Next]_vars

-----------------------------------------------------------------------------
(* The integration test: Lofter::default, a triangle and a square pushed *)

\* max_radial_edge_angle of the integration test.
IntegrationTolerance == 5

\* The second descriptor the integration test pushes.
IntegrationSquareDescriptor ==
    [vertices |-> SquareVertices, relative_position |-> 1, rotation |-> 0]

\* The sketches of the test when it calls loft: square, square, triangle,
\* square.
IntegrationSketches ==
    DefaultSketches \o << SketchFrom(TriangleDescriptor),
                          SketchFrom(IntegrationSquareDescriptor) >>

\* The state of the test after its two push_sketch calls; calls counts the
\* calls that follow.
InitIntegration ==
    /\ tie_order \in TieOrders
    /\ sketches = IntegrationSketches
    /\ loft_maps = [ i \in 1 .. NumWindows(DefaultSketches) |->
                       LoftAll(DefaultSketches, DefaultTolerance, tie_order)[i].loft ]
    /\ call = [op |-> "push_sketch", sketch_index |-> 3]
    /\ panicked = FALSE
    /\ calls = 0
    /\ b_sketches = None
    /\ b_sections = <<>>
    /\ b_candidates = <<>>
    /\ b_tol = 0
    /\ b_pc = "idle"
    /\ b_loft = None
    /\ b_last = None
    /\ b_calls = <<>>

\* The calls the test makes from there on (loft, vertex_buffer), and sketches
\* removed and pushed again.
NextIntegration ==
    \/ Loft
    \/ VertexBuffer
    \/ RemoveSketch
    \/ PushSketch

SpecIntegration == InitIntegration /\ [][NextIntegration]_vars

-----------------------------------------------------------------------------
(* One run of loft_sketches on a sketch pair, step by step *)

\* The sketch pairs loft_sketches is run on.
RingDescriptors ==
    { [vertices |-> v, relative_position |-> 0, rotation |-> r] :
        v \in RingShapes, r \in Rotations }

InitBuilder ==
    /\ tie_order \in TieOrders
    /\ sketches = <<>>
    /\ loft_maps = <<>>
    /\ call = [op |-> "new"]
    /\ panicked = FALSE
    /\ calls = 0
    /\ \E lower \in RingDescriptors, upper \in RingDescriptors :
          b_sketches = SketchPair(SketchFrom(lower), SketchFrom(upper))
    /\ b_tol \in Tolerances
    /\ b_candidates = sort_unstable_by(edge_candidates(b_sketches), tie_order)
    /\ b_sections = <<>>
    /\ b_pc = "candidates"
    /\ b_loft = None
    /\ b_last = [op |-> "edge_candidates"]
    /\ b_calls = <<>>

\* Mutant of LoopEnded: the loop also stops at a candidate whose radial error
\* equals the tolerance.
LoopEndedAtEqual ==
    IF Len(b_candidates) = 0 THEN TRUE
    ELSE Head(b_candidates).radial_error >= b_tol

\* The loop of loft_sketches stops at the end of the list or at the first
\* candidate whose radial error exceeds the tolerance.
LoopEnded ==
    IF Len(b_candidates) = 0 THEN TRUE
    ELSE Head(b_candidates).radial_error > b_tol

\* One iteration of the candidate loop: try_split_section on the next
\* candidate.
BTrySplitSection ==
    /\ b_pc = "candidates"
    /\ ~LoopEnded
    /\ b_sections' = try_split_section(b_sections, b_sketches,
                                       Head(b_candidates).vertices)
    /\ b_candidates' = Tail(b_candidates)
    /\ b_last' = [op |-> "try_split_section",
                  vertices |-> Head(b_candidates).vertices,
                  before |-> b_sections]
    /\ b_calls' = Append(b_calls, Head(b_candidates).vertices)
    /\ UNCHANGED <<b_sketches, b_tol, b_pc, b_loft, tie_order, lofterVars>>

\* The loop is left and LoftBuilder::build runs the sweep on every section,
\* or on the two whole rings when there is no section.
BBuild ==
    /\ b_pc = "candidates"
    /\ LoopEnded
    /\ LET built == build(b_sections, b_sketches, b_tol)
       IN  /\ b_loft' = IF built.panic THEN None ELSE built.loft
           /\ b_pc' = IF built.panic THEN "panicked" ELSE "built"
    /\ b_last' = [op |-> "build"]
    /\ UNCHANGED <<b_sketches, b_sections, b_candidates, b_tol, b_calls,
                   tie_order, lofterVars>>

\* Loft::append_vertex_buffer on the loft just built.
BAppendVertexBuffer ==
    /\ b_pc = "built"
    /\ IF AppendPanics(b_loft, b_sketches)
       THEN /\ b_pc' = "panicked"
            /\ b_last' = [op |-> "append_vertex_buffer", triangles |-> <<>>]
       ELSE /\ b_pc' = "done"
            /\ b_last' = [op |-> "append_vertex_buffer",
                          pairs |-> ProcessedPairs(b_loft),
                          triangles |-> append_vertex_buffer(b_loft, b_sketches)]
    /\ UNCHANGED <<b_sketches, b_sections, b_candidates, b_tol, b_loft,
                   b_calls, tie_order, lofterVars>>

NextBuilder ==
    \/ BTrySplitSection
    \/ BBuild
    \/ BAppendVertexBuffer

SpecBuilder == InitBuilder /\ [][NextBuilder]_vars

-----------------------------------------------------------------------------
(* The range functions of loft.rs applied to one section with given ranges *)

\* Start ids of the ranges handed to the functions: 0 and 2 are vertices of
\* every ring, 7 is a vertex of none.
RangeStartIds == {0, 2, 7}

\* The rings the ranges refer to.
RangeDescriptors ==
    { [vertices |-> v, relative_position |-> 0, rotation |-> 0] :
        v \in {SquareVertices, TriangleVertices} }

\* The ranges of one sketch: any start id, an end id of the sketch.
RangesOf(sketch) ==
    { [range |-> <<a, b>>, covers_entire_sketch |-> c] :
        a \in RangeStartIds, b \in DOMAIN sketch.vertex_map, c \in BOOLEAN }

\* Whether the start of a range is missing from the sketch's vertex_order.
StartNotFound(range, sketch) ==
    position(sketch.vertex_order, range.range[1]) = NoIndex

InitRange ==
    /\ tie_order = "encounter"
    /\ sketches = <<>>
    /\ loft_maps = <<>>
    /\ call = [op |-> "new"]
    /\ panicked = FALSE
    /\ calls = 0
    /\ \E lower \in RangeDescriptors, upper \in RangeDescriptors :
          b_sketches = SketchPair(SketchFrom(lower), SketchFrom(upper))
    /\ b_tol \in {DefaultTolerance}
    /\ b_candidates = <<>>
    /\ \E lower \in RangesOf(b_sketches.lower), upper \in RangesOf(b_sketches.upper) :
          b_sections = <<uninitialized_with_ranges(lower, upper)>>
    /\ b_pc = "ranges"
    /\ b_loft = None
    /\ b_last = [op |-> "uninitialized_with_ranges"]
    /\ b_calls = <<>>

\* LoftBuilder::edge_candidate_section_index on the section; none of its
\* steps (position, Iterator::any, Iterator::position) can panic.
REdgeCandidateSectionIndex ==
    /\ b_pc = "ranges"
    /\ \E lower \in DOMAIN b_sketches.lower.vertex_map,
          upper \in DOMAIN b_sketches.upper.vertex_map :
          b_last' = [op |-> "edge_candidate_section_index",
                     vertices |-> SketchPair(lower, upper),
                     result |-> edge_candidate_section_index(
                                    b_sections, b_sketches, SketchPair(lower, upper))]
    /\ b_pc' = "returned"
    /\ UNCHANGED <<b_sketches, b_sections, b_candidates, b_tol, b_loft,
                   b_calls, tie_order, lofterVars>>

\* build_loft_edges on the section's ranges.
RBuildLoftEdges ==
    /\ b_pc = "ranges"
    /\ LET r == build_loft_edges(b_sections[1].sketch_vertex_ranges,
                                 b_sketches, b_tol)
       IN  /\ b_pc' = IF r.panic THEN "panicked" ELSE "returned"
           /\ b_last' = [op |-> "build_loft_edges",
                         result |-> IF r.panic THEN <<>> ELSE r.loft_edges]
    /\ UNCHANGED <<b_sketches, b_sections, b_candidates, b_tol, b_loft,
                   b_calls, tie_order, lofterVars>>

NextRange ==
    \/ REdgeCandidateSectionIndex
    \/ RBuildLoftEdges

SpecRange == InitRange /\ [][NextRange]_vars

-----------------------------------------------------------------------------
(* Properties *)

C2_SectionsPartitionRings ==
    Len(b_sections) > 0 =>
        \A side \in {"lower", "upper"} :
            LET sketch == b_sketches[side]
                n      == Len(b_sections)
                r(i)   == b_sections[i].sketch_vertex_ranges[side]
                it(i)  == iter(r(i), sketch)
                \* ring edges (by the 0-based index of their first vertex)
                \* that section i walks
                covered(i) == { position(sketch.vertex_order, it(i)[k]) :
                                  k \in 1 .. (Len(it(i)) - 1) }
            IN  /\ \A i \in 1 .. n : r(i).range[2] = r((i % n) + 1).range[1]
                /\ \A i \in 1 .. n : Len(it(i)) > 0
                /\ \A i \in 1 .. n :
                      \A k \in 1 .. (Len(it(i)) - 1) :
                          it(i)[k + 1] = sketch.vertex_order[
                              ((position(sketch.vertex_order, it(i)[k]) + 1)
                                  % Len(sketch.vertex_order)) + 1]
                /\ \A i \in 1 .. n : Cardinality(covered(i)) = Len(it(i)) - 1
                /\ \A i, j \in 1 .. n : i # j => covered(i) \cap covered(j) = {}
                /\ UNION { covered(i) : i \in 1 .. n }
                      = 0 .. (Len(sketch.vertex_order) - 1)

\* Several splits have happened, one of them at the anchor of a range that
\* still covers its whole ring.
C2_Witness ==
    /\ b_last.op = "try_split_section"
    /\ Len(b_sections) >= 3
    /\ \E i \in 1 .. Len(b_sections) :
          \/ b_sections[i].sketch_vertex_ranges.lower.covers_entire_sketch
          \/ b_sections[i].sketch_vertex_ranges.upper.covers_entire_sketch

\* C3: lofting the two identical squares of Lofter::default with the default
\* tolerance of 50 degrees leaves a loft whose concatenated edge list is
\* exactly the four direct edges pairing vertex i with vertex i, and no
\* SketchEdge vertex.
C3_SquaresLoftToFourDirectEdges ==
    ( /\ sketches = DefaultSketches
      /\ ~panicked
      /\ \/ call.op = "default"
         \/ call.op = "loft" /\ call.max_radial_edge_angle = DefaultTolerance )
    => /\ Len(loft_maps) = 1
       /\ Len(LoftEdges(loft_maps[1])) = 4
       /\ { LoftEdges(loft_maps[1])[k] : k \in 1 .. 4 }
             = { SketchPair(SketchVertex(i), SketchVertex(i)) : i \in 0 .. 3 }

\* The two squares have been lofted again with 50 degrees by a call of loft
C3_Witness ==
    /\ sketches = DefaultSketches
    /\ ~panicked
    /\ calls = 2
    /\ call.op = "loft" /\ call.max_radial_edge_angle = DefaultTolerance
    /\ ~call.again

\* C4 (as claimed): vertex_buffer on the state built by Lofter::default
\* returns exactly 8 triangles.
C4_DefaultBufferHasEightTriangles ==
    (calls = 1 /\ call.op = "vertex_buffer" /\ ~panicked)
        => Len(call.result) = 8

\* C5 (as claimed): with a tolerance as large as the largest radial error the
\* loft has exactly one section and only direct edges.
C5_MaxToleranceOneSection ==
    (b_tol = MaxTolerance /\ b_pc \in {"built", "done"})
        => /\ Len(b_loft.sections) = 1
           /\ \A k \in 1 .. Len(LoftEdges(b_loft)) :
                 /\ LoftEdges(b_loft)[k].lower.kind = "SketchVertex"
                 /\ LoftEdges(b_loft)[k].upper.kind = "SketchVertex"

\* C5 (amended): with a tolerance as large as the largest radial error the
\* run does not panic, the loft is made of one or more sections and never of
\* the fallback list, and every edge of the loft is a direct
\* vertex-to-vertex edge.
C5_MaxToleranceSectionsAllDirect ==
    b_tol = MaxTolerance =>
        /\ b_pc # "panicked"
        /\ b_pc \in {"built", "done"} =>
              /\ Len(b_loft.sections) >= 1
              /\ b_loft.sectionless_loft_map = None
              /\ \A i \in 1 .. Len(b_loft.sections) :
                    Len(b_loft.sections[i].loft_edges) >= 1
              /\ \A k \in 1 .. Len(LoftEdges(b_loft)) :
                    /\ LoftEdges(b_loft)[k].lower.kind = "SketchVertex"
                    /\ LoftEdges(b_loft)[k].upper.kind = "SketchVertex"

\* A loft built with the largest tolerance that has several sections.
C5_Witness ==
    /\ b_tol = MaxTolerance
    /\ b_pc = "done"
    /\ Len(b_loft.sections) > 1

\* C6 (as claimed): when no lower/upper pair is within the tolerance, the
\* fallback sweep and the triangle extraction never panic.
C6_FallbackNeverPanics ==
    (\A k \in 1 .. Len(edge_candidates(b_sketches)) :
         edge_candidates(b_sketches)[k].radial_error > b_tol)
        => b_pc # "panicked"

\* C7: a loft call that repeats the previous loft call (same tolerance, the
\* sketches untouched in between) leaves the cached lofts and the triangle
\* positions of vertex_buffer as they were.
C7_LoftIdempotent ==
    [][ ( /\ call.op = "loft" /\ ~panicked
          /\ call'.op = "loft" /\ ~panicked'
          /\ call'.max_radial_edge_angle = call.max_radial_edge_angle )
        => /\ loft_maps' = loft_maps
           /\ VertexBufferPanics(sketches', loft_maps')
                 = VertexBufferPanics(sketches, loft_maps)
           /\ ~VertexBufferPanics(sketches, loft_maps)
                 => vertex_buffer(sketches', loft_maps')
                       = vertex_buffer(sketches, loft_maps) ]_vars

\* loft has just been called twice in a row with the same tolerance, other
\* than the one Lofter::default uses.
C7_Witness ==
    /\ call.op = "loft" /\ call.again /\ ~panicked
    /\ call.max_radial_edge_angle # DefaultTolerance
    /\ Len(loft_maps) >= 1

\* C8 (as claimed): when set_sketch_rotation changes the rotation of a sketch
\* that a cached loft refers to, the positions vertex_buffer returns change.
C8_RotationMovesVertexBuffer ==
    [][ ( /\ call'.op = "set_sketch_rotation"
          /\ call'.sketch_index < Len(sketches)
          /\ call'.sketch_index <= NumZipped(sketches, loft_maps)
          /\ sketches'[call'.sketch_index + 1].rotation
                # sketches[call'.sketch_index + 1].rotation
          /\ ~VertexBufferPanics(sketches, loft_maps) )
        => vertex_buffer(sketches', loft_maps')
              # vertex_buffer(sketches, loft_maps) ]_vars

C10_OneFewerLoftThanSketches ==
    Len(loft_maps) = Len(sketches) - 1

\* C11 (as claimed): with a sketch index past the end or a vertex id the
\* sketch does not have, the reading accessors return None, and a call of a
\* writing accessor leaves the sketches and the cached lofts as they were
\* and does not panic.
C11_AccessorsNeverPanic ==
    [][ /\ \A sketch_index \in Len(sketches) .. (Len(sketches) + 1) :
              /\ sketch_rotation(sketches, sketch_index) = None
              /\ sketch_relative_position(sketches, sketch_index) = None
              /\ vertices(sketches, sketch_index) = None
              /\ \A vertex_id \in EditIds :
                    get_vertex(sketches, sketch_index, vertex_id) = None
        /\ ( /\ call'.op \in {"set_sketch_rotation", "set_sketch_relative_position",
                              "get_vertex_mut", "vertices_mut"}
              /\ \/ call'.sketch_index >= Len(sketches)
                 \/ /\ call'.op = "get_vertex_mut"
                    /\ call'.vertex_id \notin
                          DOMAIN sketches[call'.sketch_index + 1].vertex_map )
           => /\ ~panicked'
              /\ sketches' = sketches
              /\ loft_maps' = loft_maps ]_vars

HasSketchEdge(a_loft) ==
    \E k \in 1 .. Len(LoftEdges(a_loft)) :
        \/ LoftEdges(a_loft)[k].lower.kind = "SketchEdge"
        \/ LoftEdges(a_loft)[k].upper.kind = "SketchEdge"

\* C13: on the sketches of the integration test (square, square, triangle,
\* square), loft with 5 degrees does not panic and leaves three lofts, the two
\* next to the triangle each holding an interpolated SketchEdge vertex, and
\* the vertex_buffer call that follows does not panic either.
C13_IntegrationCompletes ==
    [][ /\ ( /\ sketches = IntegrationSketches
              /\ call'.op = "loft"
              /\ call'.max_radial_edge_angle = IntegrationTolerance )
           => /\ ~panicked'
              /\ Len(loft_maps') = 3
              /\ HasSketchEdge(loft_maps'[2])
              /\ HasSketchEdge(loft_maps'[3])
        /\ ( /\ sketches = IntegrationSketches
              /\ call.op = "loft"
              /\ call.max_radial_edge_angle = IntegrationTolerance
              /\ call'.op = "vertex_buffer" )
           => /\ ~panicked'
              /\ Len(call'.result) > 0 ]_vars

\* The test has called loft with 5 degrees and then vertex_buffer.
C13_Witness ==
    /\ sketches = IntegrationSketches
    /\ calls = 2
    /\ call.op = "vertex_buffer"
    /\ ~panicked
    /\ Len(loft_maps) = 3
    /\ loft_maps = [ i \in 1 .. 3 |->
                       LoftAll(sketches, IntegrationTolerance, tie_order)[i].loft ]
    /\ Len(call.result) > 0

\* C14: in every sketch of the Lofter, vertex_order has no duplicates and
\* holds exactly the keys of vertex_map; and a sketch built from a descriptor
\* of n points has the ids 0 .. n-1, in input order, each mapped to its point.
C14_VertexOrderIsPermutation ==
    /\ \A i \in 1 .. Len(sketches) :
          LET order == sketches[i].vertex_order
          IN  /\ \A a, b \in 1 .. Len(order) : a # b => order[a] # order[b]
              /\ { order[a] : a \in 1 .. Len(order) }
                    = DOMAIN sketches[i].vertex_map
    /\ \A descriptor \in PushDescriptors \cup InsertDescriptors
                          \cup {DefaultLowerDescriptor, DefaultUpperDescriptor} :
          LET n     == Len(descriptor.vertices)
              built == SketchFrom(descriptor)
          IN  /\ built.vertex_order = [ k \in 1 .. n |-> k - 1 ]
              /\ DOMAIN built.vertex_map = 0 .. (n - 1)
              /\ \A k \in 1 .. n : built.vertex_map[k - 1] = descriptor.vertices[k]

\* get_vertex_mut has just been called on a triangle with the id 3, which
\* the triangle does not have.
C14_Witness ==
    /\ call.op = "get_vertex_mut"
    /\ call.sketch_index < Len(sketches)
    /\ Len(sketches[call.sketch_index + 1].vertex_order) = 3
    /\ call.vertex_id = 3
    /\ ~panicked

\* C15 (as claimed): for a loft of k edges e0 .. e(k-1), append_vertex_buffer
\* processes exactly the k cyclically consecutive pairs (e0,e1), ..,
\* (e(k-1),e0), each once.
C15_EachCyclicPairOnce ==
    (b_pc = "done" /\ b_last.op = "append_vertex_buffer") =>
        LET edges  == LoftEdges(b_loft)
            k      == Len(edges)
            cyclic == [ i \in 1 .. k |->
                          [prev |-> edges[i], cur |-> edges[(i % k) + 1]] ]
        IN  /\ Len(b_last.pairs) = k
            /\ \E r \in 0 .. (k - 1) :
                  \A i \in 1 .. k : b_last.pairs[i] = cyclic[((i - 1 + r) % k) + 1]

\* Which face the pair of edges gets: a triangle on a shared lower vertex, a
\* triangle on a shared upper vertex, or a quad.
FaceKind(p) ==
    IF p.prev.lower = p.cur.lower THEN "lower"
    ELSE IF p.prev.upper = p.cur.upper THEN "upper"
    ELSE "quad"

\* C16: for each processed pair (prev, cur), in order, the vertex buffer holds
\* the one triangle (prev.upper, cur.lower, cur.upper) if the lower vertices
\* are equal, else the one triangle (prev.upper, prev.lower, cur.lower) if
\* the upper vertices are equal, else the two triangles (prev.upper,
\* prev.lower, cur.lower) and (prev.upper, cur.lower, cur.upper); so there
\* are as many triangles as processed pairs plus pairs sharing no vertex.
C16_TriangleOrQuadPerPair ==
    (b_pc = "done" /\ b_last.op = "append_vertex_buffer") =>
        LET pairs     == b_last.pairs
            tris      == b_last.triangles
            quads(i)  == { j \in 1 .. i : FaceKind(pairs[j]) = "quad" }
            offset(i) == (i - 1) + Cardinality(quads(i - 1))
            lo(v)     == to_pos(v, b_sketches.lower)
            up(v)     == to_pos(v, b_sketches.upper)
        IN  /\ Len(tris) = Len(pairs) + Cardinality(quads(Len(pairs)))
            /\ \A i \in 1 .. Len(pairs) :
                  LET prev == pairs[i].prev
                      cur  == pairs[i].cur
                  IN  CASE FaceKind(pairs[i]) = "lower" ->
                             tris[offset(i) + 1]
                                = <<up(prev.upper), lo(cur.lower), up(cur.upper)>>
                        [] FaceKind(pairs[i]) = "upper" ->
                             tris[offset(i) + 1]
                                = <<up(prev.upper), lo(prev.lower), lo(cur.lower)>>
                        [] FaceKind(pairs[i]) = "quad" ->
                             /\ tris[offset(i) + 1]
                                   = <<up(prev.upper), lo(prev.lower), lo(cur.lower)>>
                             /\ tris[offset(i) + 2]
                                   = <<up(prev.upper), lo(cur.lower), up(cur.upper)>>

\* A vertex buffer whose pairs got all three kinds of face.
C16_Witness ==
    /\ b_pc = "done"
    /\ b_last.op = "append_vertex_buffer"
    /\ \A kind \in {"lower", "upper", "quad"} :
          \E i \in 1 .. Len(b_last.pairs) : FaceKind(b_last.pairs[i]) = kind

\* The first vertex id a loft vertex refers to.
FirstId(loft_vertex) ==
    IF loft_vertex.kind = "SketchVertex" THEN loft_vertex.id
    ELSE loft_vertex.edge[1]

\* C17: the loft LoftBuilder::build returns has the fallback edge list if and
\* only if it has no section (the builder had none); the fallback list is
\* the edge list of one merge sweep over the two whole-ring ranges that start
\* and end at vertex_order[0] of the lower and of the upper ring, so its
\* first edge starts at these two vertices.
C17_FallbackIffNoSections ==
    b_pc \in {"built", "done"} =>
        /\ Len(b_loft.sections) = Len(b_sections)
        /\ (b_loft.sectionless_loft_map # None) <=> (b_loft.sections = <<>>)
        /\ b_loft.sections = <<>> =>
              LET lower_start == b_sketches.lower.vertex_order[1]
                  upper_start == b_sketches.upper.vertex_order[1]
                  swept == build_loft_edges(
                               SketchPair(
                                 [range |-> <<lower_start, lower_start>>,
                                  covers_entire_sketch |-> TRUE],
                                 [range |-> <<upper_start, upper_start>>,
                                  covers_entire_sketch |-> TRUE]),
                               b_sketches, b_tol)
                  fallback == b_loft.sectionless_loft_map.some
              IN  /\ ~swept.panic
                  /\ fallback = swept.loft_edges
                  /\ Len(fallback) >= 1
                  /\ FirstId(fallback[1].lower) = lower_start
                  /\ FirstId(fallback[1].upper) = upper_start

\* build has returned a fallback list of several edges, some interpolated.
C17_Witness ==
    /\ b_pc = "built"
    /\ b_last.op = "build"
    /\ b_loft.sections = <<>>
    /\ b_loft.sectionless_loft_map # None
    /\ Len(LoftEdges(b_loft)) >= 3
    /\ \E k \in 1 .. Len(LoftEdges(b_loft)) :
          LoftEdges(b_loft)[k].upper.kind = "SketchEdge"

\* The radial error of a lower/upper vertex pair, on the rotated positions.
PairError(v) ==
    radial_error(vertex_rotated(b_sketches.lower, v.lower),
                 vertex_rotated(b_sketches.upper, v.upper))

\* C18: try_split_section is only called for vertex pairs whose radial error
\* is at most the tolerance, in non-decreasing order of error and never twice
\* for the same pair; once the loop is left it has been called for every
\* lower/upper pair within the tolerance.
C18_CandidatesWithinToleranceInOrder ==
    b_pc \in {"candidates", "built", "done", "panicked"} =>
        /\ \A i \in 1 .. Len(b_calls) : PairError(b_calls[i]) <= b_tol
        /\ \A i, j \in 1 .. Len(b_calls) :
              i < j => /\ PairError(b_calls[i]) <= PairError(b_calls[j])
                       /\ b_calls[i] # b_calls[j]
        /\ b_pc # "candidates" =>
              { b_calls[i] : i \in 1 .. Len(b_calls) }
                 = { v \in { SketchPair(l, u) :
                               l \in DOMAIN b_sketches.lower.vertex_map,
                               u \in DOMAIN b_sketches.upper.vertex_map } :
                       PairError(v) <= b_tol }

\* The loop has been left after calls for pairs of different errors, one of
\* them with an error equal to the tolerance, and with pairs beyond the
\* tolerance left out.
C18_Witness ==
    /\ b_pc = "built"
    /\ Len(b_calls) >= 2
    /\ PairError(b_calls[1]) < PairError(b_calls[Len(b_calls)])
    /\ PairError(b_calls[Len(b_calls)]) = b_tol
    /\ Len(b_candidates) > 0

\* The place of a lower/upper vertex pair in the list edge_candidates
\* generates: lower vertex order major, upper vertex order minor.
EncounterIndex(v) ==
    position(b_sketches.lower.vertex_order, v.lower)
        * Len(b_sketches.upper.vertex_order)
      + position(b_sketches.upper.vertex_order, v.upper)

\* C19 (as claimed): of two candidates with the same radial error,
\* try_split_section is called first for the one edge_candidates generated
\* first.
C19_TiesInEncounterOrder ==
    \A i, j \in 1 .. Len(b_calls) :
        (i < j /\ PairError(b_calls[i]) = PairError(b_calls[j]))
            => EncounterIndex(b_calls[i]) < EncounterIndex(b_calls[j])

\* C20: the first try_split_section(l, u) of a run, made on an empty section
\* list, leaves exactly one section, with the lower range (l, l) and the
\* upper range (u, u), both flagged as covering the entire sketch, and the
\* iteration of either range visits every vertex of its ring.
C20_FirstSplitCoversBothRings ==
    (b_last.op = "try_split_section" /\ Len(b_calls) = 1) =>
        /\ Len(b_sections) = 1
        /\ \A side \in {"lower", "upper"} :
              LET r       == b_sections[1].sketch_vertex_ranges[side]
                  v       == b_last.vertices[side]
                  visited == iter(r, b_sketches[side])
              IN  /\ r.range = <<v, v>>
                  /\ r.covers_entire_sketch
                  /\ { visited[k] : k \in 1 .. Len(visited) }
                        = DOMAIN b_sketches[side].vertex_map
                  /\ Len(visited) = Len(b_sketches[side].vertex_order) + 1
                  /\ visited[1] = v
                  /\ visited[Len(visited)] = v

\* The first call was made for two vertices that are not the first of their
\* rings.
C20_Witness ==
    /\ b_last.op = "try_split_section"
    /\ Len(b_calls) = 1
    /\ b_last.vertices.lower # b_sketches.lower.vertex_order[1]
    /\ b_last.vertices.upper # b_sketches.upper.vertex_order[1]

\* Whether the section's lower range holds the candidate's lower vertex and
\* its upper range the candidate's upper vertex.
HoldsCandidate(section, v) ==
    /\ \E k \in 1 .. Len(iter(section.sketch_vertex_ranges.lower, b_sketches.lower)) :
          iter(section.sketch_vertex_ranges.lower, b_sketches.lower)[k] = v.lower
    /\ \E k \in 1 .. Len(iter(section.sketch_vertex_ranges.upper, b_sketches.upper)) :
          iter(section.sketch_vertex_ranges.upper, b_sketches.upper)[k] = v.upper

\* C21: when there is a section and no section holds both vertices of the
\* candidate, try_split_section leaves the section list as it was.
C21_RejectedSplitChangesNothing ==
    ( /\ b_last.op = "try_split_section"
      /\ b_last.before # <<>>
      /\ \A i \in 1 .. Len(b_last.before) :
            ~HoldsCandidate(b_last.before[i], b_last.vertices) )
    => b_sections = b_last.before

\* A candidate has just been rejected by a list of several sections.
C21_Witness ==
    /\ b_last.op = "try_split_section"
    /\ Len(b_last.before) >= 3
    /\ \A i \in 1 .. Len(b_last.before) :
          ~HoldsCandidate(b_last.before[i], b_last.vertices)
    /\ b_sections = b_last.before

\* The index of the first section of the list that holds the candidate.
FirstHolding(sections, v) ==
    CHOOSE i \in 1 .. Len(sections) :
        /\ HoldsCandidate(sections[i], v)
        /\ \A j \in 1 .. (i - 1) : ~HoldsCandidate(sections[j], v)

\* C22: when a section holds both vertices of the candidate (l, u), the split
\* of the first such section, at index i, adds exactly one section, leaves
\* the other sections and their order as they were, puts at index i a
\* section with the ranges (old start, l) and (old start, u), and at index
\* i + 1 a section with the ranges (l, old end) and (u, old end).
C22_SplitLayout ==
    ( /\ b_last.op = "try_split_section"
      /\ \E i \in 1 .. Len(b_last.before) :
            HoldsCandidate(b_last.before[i], b_last.vertices) )
    => LET before == b_last.before
           v      == b_last.vertices
           i      == FirstHolding(before, v)
           old    == before[i].sketch_vertex_ranges
       IN  /\ Len(b_sections) = Len(before) + 1
           /\ \A j \in 1 .. (i - 1) : b_sections[j] = before[j]
           /\ \A j \in (i + 1) .. Len(before) : b_sections[j + 1] = before[j]
           /\ \A side \in {"lower", "upper"} :
                 /\ b_sections[i].sketch_vertex_ranges[side].range
                       = <<old[side].range[1], v[side]>>
                 /\ b_sections[i + 1].sketch_vertex_ranges[side].range
                       = <<v[side], old[side].range[2]>>
           /\ b_sections[i].loft_edges = <<>>
           /\ b_sections[i + 1].loft_edges = <<>>

\* A section that is neither the only one nor the last one has been split at
\* vertices that are not its range starts.
C22_Witness ==
    /\ b_last.op = "try_split_section"
    /\ Len(b_last.before) >= 2
    /\ Len(b_sections) = Len(b_last.before) + 1
    /\ \E i \in 1 .. (Len(b_last.before) - 1) :
          /\ HoldsCandidate(b_last.before[i], b_last.vertices)
          /\ \A j \in 1 .. (i - 1) : ~HoldsCandidate(b_last.before[j], b_last.vertices)
          /\ b_last.before[i].sketch_vertex_ranges.lower.range[1] # b_last.vertices.lower
          /\ b_last.before[i].sketch_vertex_ranges.upper.range[1] # b_last.vertices.upper

\* The merge sweep of one section of the loft built, run again on the
\* section's ranges.
SectionSweep(section) ==
    build_loft_edges(section.sketch_vertex_ranges, b_sketches, b_tol)

\* C23 (as claimed): in every section of a loft built from accepted
\* candidates, the first edge of the sweep joins the two range-start vertices
\* directly, and the break of the sweep is only taken when the two peeked
\* vertices are the last ones of both range iterators, the range ends, so
\* that no vertex inside either range is left unvisited.
C23_SweepSpansSection ==
    b_pc \in {"built", "done"} =>
        \A i \in 1 .. Len(b_loft.sections) :
            LET section == b_loft.sections[i]
                ranges  == section.sketch_vertex_ranges
                swept   == SectionSweep(section)
            IN  /\ section.loft_edges # <<>> =>
                      section.loft_edges[1]
                         = SketchPair(SketchVertex(ranges.lower.range[1]),
                                      SketchVertex(ranges.upper.range[1]))
                /\ swept.stop # None =>
                      /\ swept.stop.some.lower = Len(iter(ranges.lower, b_sketches.lower))
                      /\ swept.stop.some.upper = Len(iter(ranges.upper, b_sketches.upper))

\* The radial error the merge sweep computes for a lower/upper vertex pair:
\* on the positions of vertex_map.
SweepError(v) ==
    radial_error(b_sketches.lower.vertex_map[v.lower],
                 b_sketches.upper.vertex_map[v.upper])

\* C24 (as claimed): the sweep measures the same error as the candidate
\* generation, so the two range-start vertices of every section, a candidate
\* pair accepted within the tolerance, are within the tolerance for the sweep
\* that starts on them, whatever the rotations of the two rings.
C24_SweepUsesRotatedPositions ==
    b_pc \in {"built", "done"} =>
        \A i \in 1 .. Len(b_loft.sections) :
            LET ranges == b_loft.sections[i].sketch_vertex_ranges
                start  == SketchPair(ranges.lower.range[1], ranges.upper.range[1])
            IN  /\ PairError(start) <= b_tol
                /\ SweepError(start) = PairError(start)

\* The vertex that follows id in the cyclic traversal of the sketch.
Successor(sketch, id) ==
    sketch.vertex_order[((position(sketch.vertex_order, id) + 1)
                            % Len(sketch.vertex_order)) + 1]

\* Whether the edge has the vertex kept on the ring `kept` and a SketchEdge on
\* the ring `other`, the kept vertex being ahead (counter-clockwise) of the
\* first vertex of the SketchEdge by more than the tolerance, and the
\* SketchEdge running from that vertex to its successor.
MixedEdgeOn(e, kept, other) ==
    /\ e[kept].kind = "SketchVertex"
    /\ e[other].kind = "SketchEdge"
    /\ e[other].edge[2] = Successor(b_sketches[other], e[other].edge[1])
    /\ AngleTo(b_sketches[other].vertex_map[e[other].edge[1]],
               b_sketches[kept].vertex_map[e[kept].id]) > 0
    /\ radial_error(b_sketches[other].vertex_map[e[other].edge[1]],
                    b_sketches[kept].vertex_map[e[kept].id]) > b_tol

SweptRanges(a_loft) ==
    IF a_loft.sectionless_loft_map # None
    THEN << [ sketch_vertex_ranges |->
                SketchPair([range |-> << b_sketches.lower.vertex_order[1],
                                         b_sketches.lower.vertex_order[1] >>,
                            covers_entire_sketch |-> TRUE],
                           [range |-> << b_sketches.upper.vertex_order[1],
                                         b_sketches.upper.vertex_order[1] >>,
                            covers_entire_sketch |-> TRUE]),
              loft_edges |-> a_loft.sectionless_loft_map.some ] >>
    ELSE a_loft.sections

\* C26: for every range pair of a loft the sweep has returned from, either
\* range iterator is finite and ends at the end vertex of its range, from one
\* edge to the next exactly one of the two rings has moved, to the successor
\* of its current vertex, and there are at most (lower iterator length - 1)
\* + (upper iterator length - 1) edges.
C26_SweepTerminates ==
    b_pc \in {"built", "done"} =>
        \A i \in 1 .. Len(SweptRanges(b_loft)) :
            LET ranges == SweptRanges(b_loft)[i].sketch_vertex_ranges
                edges  == SweptRanges(b_loft)[i].loft_edges
                il     == iter(ranges.lower, b_sketches.lower)
                iu     == iter(ranges.upper, b_sketches.upper)
            IN  /\ Len(il) >= 1 /\ Len(il) <= Len(b_sketches.lower.vertex_order) + 1
                /\ Len(iu) >= 1 /\ Len(iu) <= Len(b_sketches.upper.vertex_order) + 1
                /\ il[Len(il)] = ranges.lower.range[2]
                /\ iu[Len(iu)] = ranges.upper.range[2]
                /\ Len(edges) <= (Len(il) - 1) + (Len(iu) - 1)
                /\ \A k \in 1 .. (Len(edges) - 1) :
                      LET l  == FirstId(edges[k].lower)
                          u  == FirstId(edges[k].upper)
                          l2 == FirstId(edges[k + 1].lower)
                          u2 == FirstId(edges[k + 1].upper)
                      IN  \/ l2 = Successor(b_sketches.lower, l) /\ u2 = u
                          \/ l2 = l /\ u2 = Successor(b_sketches.upper, u)

\* A loft with a section swept until both iterators were exhausted, with as
\* many edges as the bound allows, and more than one section.
C26_Witness ==
    /\ b_pc = "built"
    /\ Len(b_loft.sections) >= 2
    /\ \E i \in 1 .. Len(b_loft.sections) :
          LET section == b_loft.sections[i]
          IN  /\ Len(section.loft_edges) >= 3
              /\ Len(section.loft_edges)
                    = (Len(iter(section.sketch_vertex_ranges.lower, b_sketches.lower)) - 1)
                      + (Len(iter(section.sketch_vertex_ranges.upper, b_sketches.upper)) - 1)

\* C27 (as claimed): LoftBuilder::build never panics: whenever the sweep has
\* to emit an interpolated edge, the iterator of the ring the SketchEdge is
\* put on still has a vertex to peek.
C27_EdgeRingHasNextVertex ==
    ~(b_last.op = "build" /\ b_pc = "panicked")

\* C28 (as claimed): every section of a loft that build returns has at least
\* one edge and every fallback list has at least one edge, and the first-edge
\* and last-edge lookups of append_vertex_buffer succeed.
C28_EdgeListsNonEmpty ==
    /\ b_pc \in {"built", "done"} =>
          \A i \in 1 .. Len(SweptRanges(b_loft)) :
              Len(SweptRanges(b_loft)[i].loft_edges) >= 1
    /\ ~(b_last.op = "append_vertex_buffer" /\ b_pc = "panicked")

\* C28 witness: a built loft with at least three sections, one of which has a
\* range of a single vertex, has been turned into triangles.
C28_Witness ==
    /\ b_pc = "done"
    /\ b_last.op = "append_vertex_buffer"
    /\ Len(b_loft.sections) >= 3
    /\ \E i \in 1 .. Len(b_loft.sections) :
          LET r == b_loft.sections[i].sketch_vertex_ranges.lower
          IN  /\ r.range[1] = r.range[2]
              /\ ~r.covers_entire_sketch
              /\ Len(b_loft.sections[i].loft_edges) >= 1

\* C29 (as claimed): in every state the Lofter can be in when vertex_buffer is
\* called, every vertex id that cached loft i refers to, as a SketchVertex or
\* as an end of a SketchEdge, is a vertex of sketch i (lower side) and of
\* sketch i + 1 (upper side).
C29_CachedLoftVerticesExist ==
    ~panicked =>
      \A i \in 1 .. NumZipped(sketches, loft_maps) :
          \A k \in 1 .. Len(LoftEdges(loft_maps[i])) :
              /\ ToPosDefined(LoftEdges(loft_maps[i])[k].lower,
                              Window(sketches, i).lower)
              /\ ToPosDefined(LoftEdges(loft_maps[i])[k].upper,
                              Window(sketches, i).upper)

\* The vertex ids that are the SketchVertex end, on the lower side, of one of
\* the edges the sweep pushed.
LowerSketchVertexEnds(loft_edges) ==
    { loft_edges[k].lower.id :
        k \in { j \in 1 .. Len(loft_edges) :
                   loft_edges[j].lower.kind = "SketchVertex" } }

\* The same on the upper side.
UpperSketchVertexEnds(loft_edges) ==
    { loft_edges[k].upper.id :
        k \in { j \in 1 .. Len(loft_edges) :
                   loft_edges[j].upper.kind = "SketchVertex" } }

\* C30 (as claimed): in the loft of a ring pair every vertex of the lower ring
\* and every vertex of the upper ring is the SketchVertex end of at least one
\* loft edge.
C30_EveryVertexIsAnEdgeEnd ==
    b_pc \in {"built", "done"} =>
      /\ \A i \in 1 .. Len(b_sketches.lower.vertex_order) :
            b_sketches.lower.vertex_order[i]
              \in LowerSketchVertexEnds(LoftEdges(b_loft))
      /\ \A i \in 1 .. Len(b_sketches.upper.vertex_order) :
            b_sketches.upper.vertex_order[i]
              \in UpperSketchVertexEnds(LoftEdges(b_loft))

====
